---- MODULE Spec2Model ----
(***************************************************************************)
(* The request handler of the API Gateway -> Lambda -> DynamoDB example    *)
(* (lambda/apigw-handler/index.py) and the table its stack declares.       *)
(*                                                                         *)
(* Each invocation of handler(event, context) is a process that walks the  *)
(* statements of the function; invocations run concurrently (the function  *)
(* has reserved concurrency) and share only the table.  put_item is the    *)
(* one atomic step at the store.                                           *)
(*                                                                         *)
(* Python values are records [t, v]: t is the type name, v the value.  A   *)
(* Python str is a TLA+ string, except the request body, which is held as  *)
(* the tuple of its characters so that json.loads can scan it.  A dict is  *)
(* the sequence of its <<key, value>> pairs in insertion order.            *)
(*                                                                         *)
(* The JSON scanner covers objects, arrays, strings, integers, true,       *)
(* false, null and the constants NaN, Infinity and -Infinity that Python's *)
(* json accepts, with blanks between tokens; request bodies are written    *)
(* over an alphabet without backslash, apostrophe, control characters,     *)
(* fractions and exponents.  The wall-clock timestamp of the security log  *)
(* and the X-Ray subsegments are read by no statement and are left out.    *)
(***************************************************************************)
EXTENDS Integers, Sequences, FiniteSets, TLC

VARIABLES table, inv, puts, environ

vars == <<table, inv, puts, environ>>

\* ------------------------------------------------------------- bounds

\* Invocations started in one behaviour.
MaxInvocations == 2

\* ------------------------------------------------------ Python values

PyNone == [t |-> "None", v |-> <<>>]
PyStr(s) == [t |-> "str", v |-> s]
PyInt(n) == [t |-> "int", v |-> n]
PyBool(b) == [t |-> "bool", v |-> b]
\* The floats json.loads makes of NaN, Infinity, -Infinity, by their repr.
PyFloat(r) == [t |-> "float", v |-> r]
PyList(xs) == [t |-> "list", v |-> xs]
PyDict(pairs) == [t |-> "dict", v |-> pairs]

\* An optional local: <<>> while unbound, <<x>> once assigned.
Unset == <<>>
Some(x) == <<x>>

\* bool(x), the test of an if statement.
Truthy(x) ==
  CASE x.t = "None" -> FALSE
    [] x.t = "bool" -> x.v
    [] x.t = "int" -> x.v # 0
    [] x.t = "float" -> TRUE
    [] OTHER -> Len(x.v) > 0

DictHas(d, k) == \E n \in 1..Len(d.v) : d.v[n][1] = k

DictValue(d, k) == d.v[CHOOSE n \in 1..Len(d.v) : d.v[n][1] = k][2]

\* d[k] = val on a dict: an existing key keeps its place.
DictSet(pairs, k, val) ==
  IF \E n \in 1..Len(pairs) : pairs[n][1] = k
  THEN [n \in 1..Len(pairs) |->
          IF pairs[n][1] = k THEN <<k, val>> ELSE pairs[n]]
  ELSE Append(pairs, <<k, val>>)

\* x[k] with a str key: KeyError on a dict without the key, TypeError on
\* every other type.
GetItem(x, k) ==
  IF x.t = "dict"
  THEN IF DictHas(x, k)
       THEN [ok |-> TRUE, val |-> DictValue(x, k), err |-> ""]
       ELSE [ok |-> FALSE, val |-> PyNone, err |-> "KeyError"]
  ELSE [ok |-> FALSE, val |-> PyNone, err |-> "TypeError"]

\* x.get(k, default): only a dict has the method.
Get(x, k, default) ==
  IF x.t = "dict"
  THEN [ok |-> TRUE,
        val |-> IF DictHas(x, k) THEN DictValue(x, k) ELSE default,
        err |-> ""]
  ELSE [ok |-> FALSE, val |-> PyNone, err |-> "AttributeError"]

\* ------------------------------------------------------------- str()

DigitChar == <<"0", "1", "2", "3", "4", "5", "6", "7", "8", "9">>

RECURSIVE NatToStr(_)
NatToStr(n) ==
  IF n < 10 THEN DigitChar[n + 1]
  ELSE NatToStr(n \div 10) \o DigitChar[(n % 10) + 1]

IntToStr(n) == IF n < 0 THEN "-" \o NatToStr(-n) ELSE NatToStr(n)

RECURSIVE PyRepr(_)
RECURSIVE JoinRepr(_, _)
RECURSIVE JoinPairs(_, _)

\* ", ".join(repr(x) for x in xs[n:])
JoinRepr(xs, n) ==
  IF n > Len(xs) THEN ""
  ELSE PyRepr(xs[n]) \o (IF n < Len(xs) THEN ", " ELSE "") \o JoinRepr(xs, n + 1)

JoinPairs(ps, n) ==
  IF n > Len(ps) THEN ""
  ELSE "'" \o ps[n][1] \o "': " \o PyRepr(ps[n][2])
       \o (IF n < Len(ps) THEN ", " ELSE "") \o JoinPairs(ps, n + 1)

PyRepr(x) ==
  CASE x.t = "None" -> "None"
    [] x.t = "bool" -> IF x.v THEN "True" ELSE "False"
    [] x.t = "int" -> IntToStr(x.v)
    [] x.t = "float" -> x.v
    [] x.t = "str" -> "'" \o x.v \o "'"
    [] x.t = "list" -> "[" \o JoinRepr(x.v, 1) \o "]"
    [] x.t = "dict" -> "{" \o JoinPairs(x.v, 1) \o "}"

\* str(x): a str is returned as it is, every other value by its repr.
str(x) == IF x.t = "str" THEN x.v ELSE PyRepr(x)

\* -------------------------------------------------------- json.loads

Whitespace == {" "}
Digits == {"0", "1", "2", "3", "4", "5", "6", "7", "8", "9"}

DigitValue(c) == CHOOSE d \in 0..9 : DigitChar[d + 1] = c

Fail == [ok |-> FALSE, val |-> PyNone, pos |-> 0]
Ok(val, pos) == [ok |-> TRUE, val |-> val, pos |-> pos]

RECURSIVE SkipWs(_, _)
SkipWs(s, i) ==
  IF i <= Len(s) /\ s[i] \in Whitespace THEN SkipWs(s, i + 1) ELSE i

\* s[i..] starts with the characters of lit.
StartsWith(s, i, lit) ==
  /\ i + Len(lit) - 1 <= Len(s)
  /\ \A n \in 1..Len(lit) : s[i + n - 1] = lit[n]

\* The string whose opening quote was just passed: up to the closing quote.
RECURSIVE ScanString(_, _, _)
ScanString(s, j, acc) ==
  IF j > Len(s) THEN Fail
  ELSE IF s[j] = "\"" THEN Ok(PyStr(acc), j + 1)
  ELSE ScanString(s, j + 1, acc \o s[j])

RECURSIVE ScanDigits(_, _, _)
ScanDigits(s, j, acc) ==
  IF j <= Len(s) /\ s[j] \in Digits
  THEN ScanDigits(s, j + 1, 10 * acc + DigitValue(s[j]))
  ELSE Ok(PyInt(acc), j)

\* -?(0|[1-9][0-9]*)
ScanNumber(s, i) ==
  LET neg == s[i] = "-"
      j == IF neg THEN i + 1 ELSE i
      m == IF j > Len(s) \/ s[j] \notin Digits THEN Fail
           ELSE IF s[j] = "0" THEN Ok(PyInt(0), j + 1)
           ELSE ScanDigits(s, j, 0)
  IN IF m.ok /\ neg THEN Ok(PyInt(-m.val.v), m.pos) ELSE m

RECURSIVE ScanValue(_, _)
RECURSIVE ScanMembers(_, _, _)
RECURSIVE ScanElements(_, _, _)

\* The members of an object from the quote of a key at j on.
ScanMembers(s, j, pairs) ==
  IF j > Len(s) \/ s[j] # "\"" THEN Fail
  ELSE LET k == ScanString(s, j + 1, "") IN
    IF ~k.ok THEN Fail
    ELSE LET c == SkipWs(s, k.pos) IN
      IF c > Len(s) \/ s[c] # ":" THEN Fail
      ELSE LET x == ScanValue(s, SkipWs(s, c + 1)) IN
        IF ~x.ok THEN Fail
        ELSE LET e == SkipWs(s, x.pos)
                 np == DictSet(pairs, k.val.v, x.val)
             IN IF e > Len(s) THEN Fail
                ELSE IF s[e] = "}" THEN Ok(PyDict(np), e + 1)
                ELSE IF s[e] = "," THEN ScanMembers(s, SkipWs(s, e + 1), np)
                ELSE Fail

\* The elements of an array from the first character of a value at j on.
ScanElements(s, j, xs) ==
  LET x == ScanValue(s, j) IN
    IF ~x.ok THEN Fail
    ELSE LET e == SkipWs(s, x.pos)
             nx == Append(xs, x.val)
         IN IF e > Len(s) THEN Fail
            ELSE IF s[e] = "]" THEN Ok(PyList(nx), e + 1)
            ELSE IF s[e] = "," THEN ScanElements(s, SkipWs(s, e + 1), nx)
            ELSE Fail

ScanValue(s, i) ==
  IF i > Len(s) THEN Fail
  ELSE CASE s[i] = "\"" -> ScanString(s, i + 1, "")
         [] s[i] = "{" ->
              LET j == SkipWs(s, i + 1) IN
                IF j <= Len(s) /\ s[j] = "}" THEN Ok(PyDict(<<>>), j + 1)
                ELSE ScanMembers(s, j, <<>>)
         [] s[i] = "[" ->
              LET j == SkipWs(s, i + 1) IN
                IF j <= Len(s) /\ s[j] = "]" THEN Ok(PyList(<<>>), j + 1)
                ELSE ScanElements(s, j, <<>>)
         [] StartsWith(s, i, <<"n", "u", "l", "l">>) -> Ok(PyNone, i + 4)
         [] StartsWith(s, i, <<"t", "r", "u", "e">>) -> Ok(PyBool(TRUE), i + 4)
         [] StartsWith(s, i, <<"f", "a", "l", "s", "e">>) -> Ok(PyBool(FALSE), i + 5)
         [] (s[i] = "-" \/ s[i] \in Digits) /\ ScanNumber(s, i).ok -> ScanNumber(s, i)
         [] StartsWith(s, i, <<"N", "a", "N">>) -> Ok(PyFloat("nan"), i + 3)
         [] StartsWith(s, i, <<"I", "n", "f", "i", "n", "i", "t", "y">>) ->
              Ok(PyFloat("inf"), i + 8)
         [] StartsWith(s, i, <<"-", "I", "n", "f", "i", "n", "i", "t", "y">>) ->
              Ok(PyFloat("-inf"), i + 9)
         [] OTHER -> Fail

\* json.loads(x): TypeError unless x is a str; JSONDecodeError unless x is one
\* JSON value with nothing but blanks around it.
json_loads(x) ==
  IF x.t # "str" THEN [ok |-> FALSE, val |-> PyNone, err |-> "TypeError"]
  ELSE LET r == ScanValue(x.v, SkipWs(x.v, 1)) IN
    IF r.ok /\ SkipWs(x.v, r.pos) = Len(x.v) + 1
    THEN [ok |-> TRUE, val |-> r.val, err |-> ""]
    ELSE [ok |-> FALSE, val |-> PyNone, err |-> "JSONDecodeError"]

\* json.dumps(x) of the values the handler serialises: a dict of strings.
RECURSIVE DumpPairs(_, _)
DumpPairs(ps, n) ==
  IF n > Len(ps) THEN ""
  ELSE "\"" \o ps[n][1] \o "\": \"" \o ps[n][2].v \o "\""
       \o (IF n < Len(ps) THEN ", " ELSE "") \o DumpPairs(ps, n + 1)

json_dumps(x) == "{" \o DumpPairs(x.v, 1) \o "}"

\* ----------------------------------------------------- request bodies

\* {"year":1999,"title":"The Matrix","id":"m1"}
BodyMatrix ==
  <<
    "{", "\"", "y", "e", "a", "r", "\"", ":", "1", "9", "9", "9", ",", "\"",
    "t", "i", "t", "l", "e", "\"", ":", "\"", "T", "h", "e", " ", "M", "a",
    "t", "r", "i", "x", "\"", ",", "\"", "i", "d", "\"", ":", "\"", "m", "1",
    "\"", "}" >>

\* {"year": "2014", "title": "Boyhood", "id": 7}
BodyBoyhood ==
  <<
    "{", "\"", "y", "e", "a", "r", "\"", ":", " ", "\"", "2", "0", "1", "4",
    "\"", ",", " ", "\"", "t", "i", "t", "l", "e", "\"", ":", " ", "\"", "B",
    "o", "y", "h", "o", "o", "d", "\"", ",", " ", "\"", "i", "d", "\"", ":",
    " ", "7", "}" >>

\* {"year":2003,"title":"Reloaded","id":"m1"}
BodyReloaded ==
  <<
    "{", "\"", "y", "e", "a", "r", "\"", ":", "2", "0", "0", "3", ",", "\"",
    "t", "i", "t", "l", "e", "\"", ":", "\"", "R", "e", "l", "o", "a", "d",
    "e", "d", "\"", ",", "\"", "i", "d", "\"", ":", "\"", "m", "1", "\"", "}" >>

\* {"id":true,"title":["a",null],"year":-5}
BodyCoerced ==
  <<
    "{", "\"", "i", "d", "\"", ":", "t", "r", "u", "e", ",", "\"", "t", "i",
    "t", "l", "e", "\"", ":", "[", "\"", "a", "\"", ",", "n", "u", "l", "l",
    "]", ",", "\"", "y", "e", "a", "r", "\"", ":", "-", "5", "}" >>

\* {"year":1999,"id":"x"}
BodyMissingTitle ==
  <<
    "{", "\"", "y", "e", "a", "r", "\"", ":", "1", "9", "9", "9", ",", "\"",
    "i", "d", "\"", ":", "\"", "x", "\"", "}" >>

\* not json
BodyNotJson ==
  <<
    "n", "o", "t", " ", "j", "s", "o", "n" >>

\* [1999]
BodyJsonArray ==
  <<
    "[", "1", "9", "9", "9", "]" >>

\* {"year":1,"title":NaN,"id":"x"}
BodyNanTitle ==
  <<
    "{", "\"", "y", "e", "a", "r", "\"", ":", "1", ",", "\"", "t", "i", "t",
    "l", "e", "\"", ":", "N", "a", "N", ",", "\"", "i", "d", "\"", ":", "\"",
    "x", "\"", "}" >>

\* ""
BodyEmpty == << >>

\* -------------------------------------------------------------- events

\* requestContext as API Gateway's proxy integration sends it.
RequestContextOf(identity) ==
  PyDict(<< <<"identity", identity>>, <<"stage", PyStr("prod")>> >>)

IdentityOfCaller ==
  PyDict(<< <<"sourceIp", PyStr("203.0.113.7")>>,
            <<"userAgent", PyStr("curl/8.4.0")>> >>)

Routing ==
  << <<"resource", PyStr("/")>>, <<"path", PyStr("/")>>,
     <<"httpMethod", PyStr("POST")>> >>

\* {resource, path, httpMethod, requestContext, body}
Event(requestContext, body) ==
  PyDict(Routing \o << <<"requestContext", requestContext>>, <<"body", body>> >>)

GatewayEvent(body) == Event(RequestContextOf(IdentityOfCaller), body)

\* The events of the proxy integration: requestContext and its identity are
\* objects, body is a string or null.
GatewayEvents ==
  << GatewayEvent(PyStr(BodyMatrix)),
     GatewayEvent(PyStr(BodyBoyhood)),
     GatewayEvent(PyStr(BodyReloaded)),
     GatewayEvent(PyStr(BodyCoerced)),
     GatewayEvent(PyStr(BodyMissingTitle)),
     GatewayEvent(PyStr(BodyNotJson)),
     GatewayEvent(PyStr(BodyJsonArray)),
     GatewayEvent(PyStr(BodyNanTitle)),
     GatewayEvent(PyStr(BodyEmpty)),
     GatewayEvent(PyNone) >>

\* Events of other callers (a direct invoke, a test event): a key left out
\* or null where the proxy integration sends an object.
OtherEvents ==
  << PyDict(Routing \o << <<"requestContext", RequestContextOf(IdentityOfCaller)>> >>),
     PyDict(<< <<"body", PyStr(BodyMatrix)>> >>),
     Event(RequestContextOf(PyNone), PyStr(BodyMatrix)) >>

AnyEvents == GatewayEvents \o OtherEvents

\* str(uuid.uuid4()): any version 4 UUID.
UUIDs ==
  { "1b4e28ba-2fa1-41d2-883f-0016d3cca427",
    "6fa459ea-ee8a-4ca4-894e-db77e160355e" }

\* ------------------------------------------------------------ the table

\* The environment the stack gives the function: TABLE_NAME is the name
\* generated for demo_table.
DeployedTableName == "Stack-demotable002BE91A-1XYZ"

DeployedEnviron == PyDict(<< <<"TABLE_NAME", PyStr(DeployedTableName)>> >>)

\* os.environ.get(k): None when the variable is not set.
os_environ_get(env, k) == Get(env, k, PyNone).val

\* Item with year and title exchanged.
Item_YearAndTitleExchanged(year, title, id) ==
  [year |-> [N |-> title], title |-> [S |-> year], id |-> [S |-> id]]

\* The item of a put_item call: year typed N, title and id typed S.
Item(year, title, id) ==
  [year |-> [N |-> year], title |-> [S |-> title], id |-> [S |-> id]]

\* DefaultItem under one fixed key instead of the generated one.
DefaultItem_FixedId(default_id) ==
  [year |-> [N |-> "2012"],
   title |-> [S |-> "The Amazing Spider-Man 2"],
   id |-> [S |-> "default"]]

DefaultItem(default_id) ==
  [year |-> [N |-> "2012"],
   title |-> [S |-> "The Amazing Spider-Man 2"],
   id |-> [S |-> default_id]]

\* Upsert as a conditional put (attribute_not_exists) would behave: the item
\* already at the key stays.
Upsert_KeepsExisting(t, item) ==
  IF \E r \in t : r.id.S = item.id.S THEN t ELSE t \cup {item}

\* Upsert writing over the whole table instead of one key.
Upsert_ReplacesTable(t, item) == {item}

\* PutItem on a table whose partition key is id: the item replaces the item
\* of the same key, if there is one.
Upsert(t, item) == {r \in t : r.id.S # item.id.S} \cup {item}

\* ---------------------------------------------------------- the handler

\* security_log of lines 27-37, without its timestamp.  Every chained .get
\* is evaluated; the first one that raises ends the statement.
Chain(x, k, default) == IF x.ok THEN Get(x.val, k, default) ELSE x

RequestContext(event) == Get(event, "requestContext", PyDict(<< >>))

Identity(event) == Chain(RequestContext(event), "identity", PyDict(<< >>))

security_log(event, context) ==
  LET source_ip == Chain(Identity(event), "sourceIp", PyNone)
      user_agent == Chain(Identity(event), "userAgent", PyNone)
      method == Get(event, "httpMethod", PyNone)
      path == Get(event, "path", PyNone)
      resource == Get(event, "resource", PyNone)
      stage == Chain(RequestContext(event), "stage", PyNone)
      all == <<source_ip, user_agent, method, path, resource, stage>>
  IN IF \A n \in 1..Len(all) : all[n].ok
     THEN [ok |-> TRUE, err |-> "",
           val |-> PyDict(<< <<"event_type", PyStr("api_request")>>,
                             <<"request_id", PyStr(context.aws_request_id)>>,
                             <<"source_ip", source_ip.val>>,
                             <<"user_agent", user_agent.val>>,
                             <<"method", method.val>>,
                             <<"path", path.val>>,
                             <<"resource", resource.val>>,
                             <<"stage", stage.val>> >>)]
     ELSE [ok |-> FALSE, err |-> "AttributeError", val |-> PyNone]

operation_log(table_name, item_id, context) ==
  PyDict(<< <<"event_type", PyStr("data_operation")>>,
            <<"operation", PyStr("put_item")>>,
            <<"table", table_name>>,
            <<"item_id", PyStr(item_id)>>,
            <<"request_id", PyStr(context.aws_request_id)>>,
            <<"status", PyStr("success")>> >>)

default_operation_log(table_name, default_id, context) ==
  PyDict(operation_log(table_name, default_id, context).v
         \o << <<"note", PyStr("default_payload_used")>> >>)

message == "Successfully inserted data!"

Response ==
  [statusCode |-> 200,
   headers |-> [n \in {"Content-Type"} |-> "application/json"],
   body |-> json_dumps(PyDict(<< <<"message", PyStr(message)>> >>))]

\* The frame of handler(event, context) as the call starts.
NewInvocation(event, n) ==
  [pc |-> "log", event |-> event,
   context |-> [aws_request_id |-> "req-" \o IntToStr(n)],
   table |-> Unset,
   year |-> Unset, title |-> Unset, id |-> Unset, default_id |-> Unset,
   response |-> Unset, error |-> "", log |-> << >>]

\* The frame after an exception leaves the handler.
Raise(f, err) == [f EXCEPT !.pc = "failed", !.error = err]

\* Lines 42-48 when event["body"] raises or is truthy: item = json.loads(body),
\* then the three subscripts in the order year, title, id.
process_request_body(f) ==
  LET body == GetItem(f.event, "body")
      item == json_loads(body.val)
      y == GetItem(item.val, "year")
      t == GetItem(item.val, "title")
      d == GetItem(item.val, "id")
  IN IF ~body.ok THEN Raise(f, body.err)
     ELSE IF ~item.ok THEN Raise(f, item.err)
     ELSE LET g == [f EXCEPT !.log = Append(@, PyStr("## Received payload: "
                                                      \o str(item.val)))]
          IN IF ~y.ok THEN Raise(g, y.err)
             ELSE IF ~t.ok
               THEN Raise([g EXCEPT !.year = Some(str(y.val))], t.err)
             ELSE IF ~d.ok
               THEN Raise([g EXCEPT !.year = Some(str(y.val)),
                                    !.title = Some(str(t.val))], d.err)
             ELSE [g EXCEPT !.pc = "put",
                            !.year = Some(str(y.val)),
                            !.title = Some(str(t.val)),
                            !.id = Some(str(d.val))]

\* AfterPut of a handler that calls put_item again.
AfterPut_PutsAgain == "put"

\* Where the handler goes on after a put_item call returns.
AfterPut == "oplog"
AfterDefaultPut == "oplog_default"

\* PutError of a handler that catches the exception and goes on.
PutError_Swallowed(f) ==
  [f EXCEPT !.pc = IF f.default_id = Unset THEN "oplog" ELSE "oplog_default"]

\* A put_item call that raises: nothing catches it.
PutError(f) == Raise(f, "ClientError")

Init ==
  /\ table = {}
  /\ inv = << >>
  /\ puts = << >>
  /\ environ = DeployedEnviron

\* The runtime calls handler(event, context).
Invoke(event) ==
  /\ Len(inv) < MaxInvocations
  /\ inv' = Append(inv, NewInvocation(event, Len(inv) + 1))
  /\ UNCHANGED <<table, puts, environ>>

InvokeGateway == \E k \in 1..Len(GatewayEvents) : Invoke(GatewayEvents[k])

InvokeOther == \E k \in 1..Len(OtherEvents) : Invoke(OtherEvents[k])

\* Lines 24-40.
SecurityLog(i) ==
  /\ inv[i].pc = "log"
  /\ LET f == [inv[i] EXCEPT !.table = Some(os_environ_get(environ, "TABLE_NAME"))]
         s == security_log(f.event, f.context)
     IN inv' = [inv EXCEPT ![i] =
          IF ~s.ok THEN Raise(f, s.err)
          ELSE [f EXCEPT !.pc = "body",
                         !.log = @ \o << s.val,
                           PyStr("## Loaded table name from environemt variable DDB_TABLE: "
                                 \o str(f.table[1])) >>]]
  /\ UNCHANGED <<table, puts, environ>>

\* ProcessRequestBody of a handler that writes a placeholder record before it
\* parses the body.
ProcessRequestBody_PutsFirst(i) ==
  /\ inv[i].pc = "body"
  /\ LET body == GetItem(inv[i].event, "body")
     IN ~body.ok \/ Truthy(body.val)
  /\ LET item == DefaultItem("pending")
     IN /\ table' = Upsert(table, item)
        /\ puts' = Append(puts, [by |-> i, TableName |-> inv[i].table[1],
                                 item |-> item, ok |-> TRUE])
  /\ inv' = [inv EXCEPT ![i] = process_request_body(inv[i])]
  /\ UNCHANGED environ

\* Lines 42-48.
ProcessRequestBody(i) ==
  /\ inv[i].pc = "body"
  /\ LET body == GetItem(inv[i].event, "body")
     IN ~body.ok \/ Truthy(body.val)
  /\ inv' = [inv EXCEPT ![i] = process_request_body(inv[i])]
  /\ UNCHANGED <<table, puts, environ>>

\* Lines 50-54, the call returning.
PutItem(i) ==
  /\ inv[i].pc = "put"
  /\ LET f == inv[i]
         item == Item(f.year[1], f.title[1], f.id[1])
     IN /\ table' = Upsert(table, item)
        /\ puts' = Append(puts, [by |-> i, TableName |-> f.table[1],
                                 item |-> item, ok |-> TRUE])
        /\ inv' = [inv EXCEPT ![i].pc = AfterPut]
        /\ UNCHANGED environ

\* Lines 50-54, the call raising.
PutItemRaises(i) ==
  /\ inv[i].pc = "put"
  /\ LET f == inv[i]
         item == Item(f.year[1], f.title[1], f.id[1])
     IN /\ puts' = Append(puts, [by |-> i, TableName |-> f.table[1],
                                 item |-> item, ok |-> FALSE])
        /\ inv' = [inv EXCEPT ![i] = PutError(f)]
  /\ UNCHANGED <<table, environ>>

\* Lines 56-72.
Return(i) ==
  /\ inv[i].pc = "oplog"
  /\ inv' = [inv EXCEPT ![i] =
       [@ EXCEPT !.pc = "done",
                 !.log = Append(@, operation_log(inv[i].table[1], inv[i].id[1],
                                                 inv[i].context)),
                 !.response = Some(Response)]]
  /\ UNCHANGED <<table, puts, environ>>

\* Line 42 with a falsy body, then lines 73-75.
GenerateId(i) ==
  /\ inv[i].pc = "body"
  /\ LET body == GetItem(inv[i].event, "body")
     IN body.ok /\ ~Truthy(body.val)
  /\ \E u \in UUIDs :
       inv' = [inv EXCEPT ![i] =
         [@ EXCEPT !.pc = "put_default",
                   !.log = Append(@, PyStr("## Received request without a payload")),
                   !.default_id = Some(u)]]
  /\ UNCHANGED <<table, puts, environ>>

\* Lines 77-85, the call returning.
PutDefaultItem(i) ==
  /\ inv[i].pc = "put_default"
  /\ LET item == DefaultItem(inv[i].default_id[1])
     IN /\ table' = Upsert(table, item)
        /\ puts' = Append(puts, [by |-> i, TableName |-> inv[i].table[1],
                                 item |-> item, ok |-> TRUE])
        /\ inv' = [inv EXCEPT ![i].pc = AfterDefaultPut]
        /\ UNCHANGED environ

\* Lines 77-85, the call raising.
PutDefaultItemRaises(i) ==
  /\ inv[i].pc = "put_default"
  /\ LET item == DefaultItem(inv[i].default_id[1])
     IN /\ puts' = Append(puts, [by |-> i, TableName |-> inv[i].table[1],
                                 item |-> item, ok |-> FALSE])
        /\ inv' = [inv EXCEPT ![i] = PutError(inv[i])]
  /\ UNCHANGED <<table, environ>>

\* Lines 87-104.
ReturnDefault(i) ==
  /\ inv[i].pc = "oplog_default"
  /\ inv' = [inv EXCEPT ![i] =
       [@ EXCEPT !.pc = "done",
                 !.log = Append(@, default_operation_log(inv[i].table[1],
                                                         inv[i].default_id[1],
                                                         inv[i].context)),
                 !.response = Some(Response)]]
  /\ UNCHANGED <<table, puts, environ>>

\* The handler behind API Gateway, the store answering every call.
Next ==
  \/ InvokeGateway
  \/ \E i \in DOMAIN inv : SecurityLog(i)
  \/ \E i \in DOMAIN inv : ProcessRequestBody(i)
  \/ \E i \in DOMAIN inv : PutItem(i)
  \/ \E i \in DOMAIN inv : Return(i)
  \/ \E i \in DOMAIN inv : GenerateId(i)
  \/ \E i \in DOMAIN inv : PutDefaultItem(i)
  \/ \E i \in DOMAIN inv : ReturnDefault(i)

Spec == Init /\ [][Next]_vars

\* The same, with a store whose put_item may raise.
NextStore ==
  \/ Next
  \/ \E i \in DOMAIN inv : PutItemRaises(i)
  \/ \E i \in DOMAIN inv : PutDefaultItemRaises(i)

SpecStore == Init /\ [][NextStore]_vars

\* The same, with the events of any caller.
NextEnv ==
  \/ NextStore
  \/ InvokeOther

SpecEnv == Init /\ [][NextEnv]_vars

\* ------------------------------------------------ reading a behaviour

Finished(i) == inv[i].pc \in {"done", "failed"}

\* The put_item calls invocation i has made, as indices of puts.
PutsBy(i) == {n \in 1..Len(puts) : puts[n].by = i}

\* What an event says about its body, read off the event alone.
HasBodyKey(e) == DictHas(e, "body")

\* The body is a non-empty string.
IsPayload(e) ==
  HasBodyKey(e) /\ DictValue(e, "body").t = "str" /\ Len(DictValue(e, "body").v) > 0

\* The body is null or the empty string.
IsNoPayload(e) ==
  /\ HasBodyKey(e)
  /\ \/ DictValue(e, "body").t = "None"
     \/ DictValue(e, "body").t = "str" /\ Len(DictValue(e, "body").v) = 0

RequiredKeys == {"year", "title", "id"}

\* The body is a non-empty string that parses as a JSON object with the keys
\* year, title and id.
IsValidPayload(e) ==
  /\ IsPayload(e)
  /\ LET item == json_loads(DictValue(e, "body"))
     IN item.ok /\ item.val.t = "dict" /\ \A k \in RequiredKeys : DictHas(item.val, k)

\* A parsed value holds one of the constants NaN, Infinity, -Infinity, which
\* the JSON grammar does not have.
RECURSIVE HasConstant(_)
HasConstant(x) ==
  CASE x.t = "float" -> TRUE
    [] x.t = "list" -> \E n \in 1..Len(x.v) : HasConstant(x.v[n])
    [] x.t = "dict" -> \E n \in 1..Len(x.v) : HasConstant(x.v[n][2])
    [] OTHER -> FALSE

\* The body is a non-empty string of the JSON grammar.
IsJson(e) ==
  /\ IsPayload(e)
  /\ LET item == json_loads(DictValue(e, "body"))
     IN item.ok /\ ~HasConstant(item.val)

\* {id: str(id) as string, year: str(year) as number, title: str(title) as string}
RecordOf(e) ==
  LET item == json_loads(DictValue(e, "body")).val
  IN [id |-> [S |-> str(DictValue(item, "id"))],
      year |-> [N |-> str(DictValue(item, "year"))],
      title |-> [S |-> str(DictValue(item, "title"))]]

\* The same for every event there is, worked out once.
Reading ==
  [k \in 1..Len(AnyEvents) |->
    [has_body |-> HasBodyKey(AnyEvents[k]),
     payload |-> IsPayload(AnyEvents[k]),
     no_payload |-> IsNoPayload(AnyEvents[k]),
     valid |-> IsValidPayload(AnyEvents[k]),
     json |-> IsJson(AnyEvents[k]),
     record |-> IF IsValidPayload(AnyEvents[k]) THEN <<RecordOf(AnyEvents[k])>> ELSE << >>]]

ReadingOf(i) == Reading[CHOOSE k \in 1..Len(AnyEvents) : AnyEvents[k] = inv[i].event]

HasBody(i) == ReadingOf(i).has_body

BodyOf(i) == DictValue(inv[i].event, "body")

HasPayload(i) == ReadingOf(i).payload

NoPayload(i) == ReadingOf(i).no_payload

ValidPayload(i) == ReadingOf(i).valid

JsonPayload(i) == ReadingOf(i).json

PayloadRecord(i) == ReadingOf(i).record[1]

\* statusCode 200, Content-Type: application/json, the fixed message.
SuccessResponse ==
  [statusCode |-> 200,
   headers |-> [n \in {"Content-Type"} |-> "application/json"],
   body |-> "{\"message\": \"Successfully inserted data!\"}"]

\* Invocation i has made exactly one put_item call, it returned, and its item
\* was r.
OnePutOf(i, r) ==
  /\ Cardinality(PutsBy(i)) = 1
  /\ \A n \in PutsBy(i) : puts[n].ok /\ puts[n].item = r

\* The operation-outcome log with status "success" is in i's log.
LoggedSuccess(i) ==
  \E n \in 1..Len(inv[i].log) :
    LET e == inv[i].log[n]
    IN e.t = "dict" /\ DictHas(e, "status") /\ DictValue(e, "status") = PyStr("success")

\* The put_item calls that returned, and the last of them for a key.
Written(id) == {n \in 1..Len(puts) : puts[n].ok /\ puts[n].item.id.S = id}

LastWritten(id) == CHOOSE n \in Written(id) : \A m \in Written(id) : m <= n

WrittenIds == {puts[n].item.id.S : n \in {m \in 1..Len(puts) : puts[m].ok}}

\* ------------------------------------------------------------- claims

\* C1: an invocation whose body is a non-empty string that parses as a JSON
\* object with the keys year, title and id does not fail, and once it has
\* returned it has made exactly one put, of the item {id: str(id) as S,
\* year: str(year) as N, title: str(title) as S}, and its response is the
\* fixed 200 response.  No response exists before the put.
C1_ValidPayloadIsPutAndAnswered ==
  \A i \in DOMAIN inv :
    ValidPayload(i) =>
      /\ inv[i].pc # "failed"
      /\ inv[i].pc = "done" =>
            OnePutOf(i, PayloadRecord(i)) /\ inv[i].response = Some(SuccessResponse)
      /\ inv[i].pc # "done" => inv[i].response = Unset
      /\ inv[i].pc \in {"log", "body", "put"} => PutsBy(i) = {}

\* C1 witness: the payload with a boolean id, a list title and a negative
\* year has been stored by its str() forms and answered.
C1_Witness ==
  \E i \in DOMAIN inv :
    /\ inv[i].event = GatewayEvent(PyStr(BodyCoerced))
    /\ inv[i].pc = "done"
    /\ [id |-> [S |-> "True"], year |-> [N |-> "-5"],
        title |-> [S |-> "['a', None]"]] \in table

\* C2 (as amended): an invocation whose body is null or the empty string does
\* not fail, and once it has returned it has made exactly one put, of the item
\* {id: the string uuid4 gave it, year: 2012 as N, title: "The Amazing
\* Spider-Man 2" as S}, and its response is the fixed 200 response.
C2_NoPayloadPutsDefaultRecord ==
  \A i \in DOMAIN inv :
    NoPayload(i) =>
      /\ inv[i].pc # "failed"
      /\ inv[i].pc = "done" =>
           /\ inv[i].default_id # Unset
           /\ inv[i].default_id[1] \in UUIDs
           /\ OnePutOf(i, [id |-> [S |-> inv[i].default_id[1]],
                           year |-> [N |-> "2012"],
                           title |-> [S |-> "The Amazing Spider-Man 2"]])
           /\ inv[i].response = Some(SuccessResponse)
      /\ inv[i].pc # "done" => inv[i].response = Unset

\* C2 witness: a null-body invocation has returned and its default record is
\* in the table.
C2_Witness ==
  \E i \in DOMAIN inv :
    /\ inv[i].event = GatewayEvent(PyNone)
    /\ inv[i].pc = "done"
    /\ \E r \in table :
         r.id.S = inv[i].default_id[1] /\ r.year.N = "2012"
         /\ r.title.S = "The Amazing Spider-Man 2"

\* C2 as stated: on top of the above, the generated id differs from the id
\* generated by every other invocation, and the default put never lands on a
\* key that an earlier put has written.
C2_GeneratedIdIsFresh ==
  /\ C2_NoPayloadPutsDefaultRecord
  /\ \A i, j \in DOMAIN inv :
       (i # j /\ inv[i].default_id # Unset /\ inv[j].default_id # Unset)
         => inv[i].default_id # inv[j].default_id
  /\ \A n \in 1..Len(puts) :
       NoPayload(puts[n].by) =>
         \A m \in 1..(n - 1) : puts[m].ok => puts[m].item.id.S # puts[n].item.id.S

\* C3: the table holds at most one record per id; the record at an id is the
\* item of the last put that returned for that id, which for a payload
\* invocation is the str() form of that invocation's year and title; and a put
\* on an id that is already in the table returns like any other, its
\* invocation going on to the 200 response.
C3_LastWriteWins ==
  /\ \A r1, r2 \in table : r1.id.S = r2.id.S => r1 = r2
  /\ table = {puts[LastWritten(id)].item : id \in WrittenIds}
  /\ \A id \in WrittenIds :
       LET i == puts[LastWritten(id)].by
       IN ValidPayload(i) => PayloadRecord(i) \in table
  /\ \A n \in 1..Len(puts) :
       puts[n].ok =>
         /\ inv[puts[n].by].pc \in {"oplog", "oplog_default", "done"}
         /\ inv[puts[n].by].pc = "done" =>
              inv[puts[n].by].response = Some(SuccessResponse)

\* C3 witness: two payload invocations used the id m1, both returned 200, and
\* the table holds the record of the one that put last and not the other's.
C3_Witness ==
  \E i, j \in DOMAIN inv :
    /\ inv[i].event = GatewayEvent(PyStr(BodyMatrix)) /\ inv[j].event = GatewayEvent(PyStr(BodyReloaded))
    /\ inv[i].pc = "done" /\ inv[j].pc = "done"
    /\ \E n \in PutsBy(i), m \in PutsBy(j) : n < m
    /\ [id |-> [S |-> "m1"], year |-> [N |-> "2003"],
        title |-> [S |-> "Reloaded"]] \in table
    /\ \A r \in table : r.title.S # "The Matrix"

\* C4 as stated: an invocation whose body is a non-empty string that is not
\* valid JSON, or is valid JSON without one of the keys year, title, id, never
\* reaches the put and never has a response: it can only end as a failed
\* invocation.
C4_BadPayloadFails ==
  \A i \in DOMAIN inv :
    (HasPayload(i) /\ ~(JsonPayload(i) /\ ValidPayload(i))) =>
      /\ inv[i].pc \in {"log", "body", "failed"}
      /\ inv[i].response = Unset
      /\ Finished(i) => inv[i].pc = "failed" /\ inv[i].error # ""

\* C5 (as amended): an invocation makes at most one put_item call; one that has
\* returned a response has made exactly one, and that call returned; one that
\* failed before its put has made none.
C5_AtMostOnePut ==
  \A i \in DOMAIN inv :
    /\ Cardinality(PutsBy(i)) <= 1
    /\ inv[i].pc = "done" =>
         Cardinality(PutsBy(i)) = 1 /\ \A n \in PutsBy(i) : puts[n].ok
    /\ (inv[i].pc = "failed" /\ inv[i].error # "ClientError") => PutsBy(i) = {}

\* C5 witness: one invocation has failed on its body without a put while
\* another has returned after its one put.
C5_Witness ==
  \E i, j \in DOMAIN inv :
    /\ inv[i].pc = "failed" /\ inv[i].error = "JSONDecodeError" /\ PutsBy(i) = {}
    /\ inv[j].pc = "done" /\ Cardinality(PutsBy(j)) = 1

\* C5 as stated: every invocation that has ended has made exactly one put.
C5_ExactlyOnePutWhateverTheEvent ==
  \A i \in DOMAIN inv : Finished(i) => Cardinality(PutsBy(i)) = 1

\* C6: two invocations with valid bodies and distinct ids, whose ids no third
\* invocation writes, never fail; once both have returned, both responses are
\* the 200 response, the table holds each one's own record at its id, and the
\* records at the two ids are what running the two one after the other, in
\* either order, leaves.
C6_DistinctIdsDoNotInterfere ==
  \A i, j \in DOMAIN inv :
    (/\ i # j
     /\ ValidPayload(i) /\ ValidPayload(j)
     /\ PayloadRecord(i).id # PayloadRecord(j).id
     /\ \A n \in 1..Len(puts) :
          puts[n].by \notin {i, j} =>
            puts[n].item.id \notin {PayloadRecord(i).id, PayloadRecord(j).id})
    =>
      /\ inv[i].pc # "failed" /\ inv[j].pc # "failed"
      /\ (inv[i].pc = "done" /\ inv[j].pc = "done") =>
           LET a == PayloadRecord(i)
               b == PayloadRecord(j)
               both == {r \in table : r.id \in {a.id, b.id}}
           IN /\ inv[i].response = Some(SuccessResponse)
              /\ inv[j].response = Some(SuccessResponse)
              /\ both = {a, b}
              /\ both = Upsert(Upsert({}, a), b)
              /\ both = Upsert(Upsert({}, b), a)

\* C6 witness: two such invocations overlapped (the one invoked second put
\* first) and both have returned with both records in the table.
C6_Witness ==
  \E i, j \in DOMAIN inv :
    /\ i < j
    /\ inv[i].event = GatewayEvent(PyStr(BodyMatrix)) /\ inv[j].event = GatewayEvent(PyStr(BodyBoyhood))
    /\ inv[i].pc = "done" /\ inv[j].pc = "done"
    /\ \E n \in PutsBy(i), m \in PutsBy(j) : m < n
    /\ Cardinality(table) = 2

\* C7 as stated: two invocations with the same body (or both without one)
\* whose put_item calls returned end alike, whatever their metadata: both
\* with the same response or both failed, having written the same year and
\* title.
C7_MetadataDoesNotDecide ==
  \A i, j \in DOMAIN inv :
    (/\ Finished(i) /\ Finished(j)
     /\ HasBody(i) = HasBody(j)
     /\ HasBody(i) => BodyOf(i) = BodyOf(j)
     /\ inv[i].error # "ClientError" /\ inv[j].error # "ClientError")
    =>
      /\ inv[i].pc = inv[j].pc
      /\ inv[i].response = inv[j].response
      /\ (inv[i].default_id = Unset) = (inv[j].default_id = Unset)
      /\ {<<puts[n].item.year, puts[n].item.title>> : n \in PutsBy(i)}
           = {<<puts[n].item.year, puts[n].item.title>> : n \in PutsBy(j)}

\* C8 as stated: an event without a body key, with a null body or with an
\* empty body ends (its put_item call returning, its metadata well-formed)
\* with the default record written under a generated id and the 200
\* response; every other event takes the payload path.
C8_AbsentBodyIsNoPayload ==
  \A i \in DOMAIN inv :
    (Finished(i) /\ inv[i].error \notin {"ClientError", "AttributeError"}) =>
      IF ~HasBody(i) \/ NoPayload(i)
      THEN /\ inv[i].pc = "done"
           /\ inv[i].default_id # Unset
           /\ OnePutOf(i, DefaultItem(inv[i].default_id[1]))
           /\ inv[i].response = Some(SuccessResponse)
      ELSE inv[i].default_id = Unset

\* C9: an invocation whose put_item call raised has failed with no response,
\* no "success" operation log and no second call; an invocation has a response
\* only after a put_item call of its own has returned, and the response's
\* status code is 200.
C9_PutFailurePropagates ==
  \A i \in DOMAIN inv :
    /\ (\E n \in PutsBy(i) : ~puts[n].ok) =>
         /\ inv[i].pc = "failed"
         /\ inv[i].response = Unset
         /\ ~LoggedSuccess(i)
         /\ Cardinality(PutsBy(i)) = 1
    /\ inv[i].response # Unset =>
         /\ \E n \in PutsBy(i) : puts[n].ok
         /\ inv[i].response[1].statusCode = 200
    /\ LoggedSuccess(i) => \E n \in PutsBy(i) : puts[n].ok

\* C9 witness: a put_item call raised on each path, the invocations have
\* failed with ClientError, and neither item is in the table.
C9_Witness ==
  \E i, j \in DOMAIN inv :
    /\ ValidPayload(i) /\ NoPayload(j)
    /\ inv[i].pc = "failed" /\ inv[i].error = "ClientError"
    /\ inv[j].pc = "failed" /\ inv[j].error = "ClientError"
    /\ \A n \in PutsBy(i) \cup PutsBy(j) : ~puts[n].ok /\ puts[n].item \notin table
    /\ PutsBy(i) # {} /\ PutsBy(j) # {}

\* C10: an invocation that fails on its body (it does not parse, or a key is
\* missing) makes no put_item call at any time, and every record of the table
\* has exactly the attributes id, year and title, typed S, N and S.
C10_FailedInputWritesNothing ==
  /\ \A i \in DOMAIN inv :
       \/ (HasPayload(i) /\ ~ValidPayload(i))
       \/ (inv[i].pc = "failed" /\ inv[i].error \in {"JSONDecodeError", "KeyError", "TypeError"})
       => PutsBy(i) = {} /\ inv[i].id = Unset /\ inv[i].default_id = Unset
  /\ \A r \in table :
       /\ DOMAIN r = {"id", "year", "title"}
       /\ DOMAIN r.id = {"S"} /\ DOMAIN r.year = {"N"} /\ DOMAIN r.title = {"S"}

\* C10 witness: after another invocation's record was written, an invocation
\* failed on a body without title, and the table is that one record still.
C10_Witness ==
  \E i, j \in DOMAIN inv :
    /\ inv[i].event = GatewayEvent(PyStr(BodyMissingTitle))
    /\ inv[i].pc = "failed" /\ inv[i].error = "KeyError"
    /\ inv[j].pc = "done" /\ ValidPayload(j)
    /\ table = {PayloadRecord(j)}

====
